---- MODULE Spec2Model ----
(***************************************************************************)
(* Forex subscriber (lab3.py): quote ledger, stale-quote expiry and        *)
(* Bellman-Ford arbitrage detection, one pipeline pass per received        *)
(* datagram:  unmarshal -> process_quotes -> remove_stale_quotes ->        *)
(* detect_arbitrage.                                                       *)
(*                                                                         *)
(* Numbers.  Exchange rates are exact rationals [num, den]; the rates fed  *)
(* to the subscriber are powers of two, so that math.log is exact in units *)
(* of ln 2 (MathLog) and products of rates are exact.  Wall-clock time is  *)
(* counted in tenths of a second (QUOTE_EXPIRY = 1.5 s = 15).  Wire        *)
(* timestamps are small naturals.  Money amounts are exact rationals in    *)
(* USD.                                                                    *)
(***************************************************************************)
EXTENDS Integers, Sequences, FiniteSets, TLC

\* ------------------------------------------------------------------ bounds
MaxTs == 3
MaxTime == 16
MaxInput == 3

\* -------------------------------------------------------------- constants
QUOTE_EXPIRY == 15
starting_amount == 100

None == "None"
USD == "USD"
Currencies == {"USD", "EUR", "GBP"}

\* A pair id "EUR/USD" is <<"EUR", "USD">>: f"{currency1}/{currency2}" and
\* market.split('/').
Markets == Currencies \X Currencies

\* ------------------------------------------------------------- rationals
Rat(n, d) == [num |-> n, den |-> d]

RECURSIVE GCD(_, _)
GCD(a, b) == IF b = 0 THEN a ELSE GCD(b, a % b)

Abs(n) == IF n < 0 THEN -n ELSE n

Norm(r) ==
    LET g == GCD(Abs(r.num), r.den)
    IN  Rat(r.num \div g, r.den \div g)

RatMul(a, b) == Norm(Rat(a.num * b.num, a.den * b.den))
RatAdd(a, b) == Norm(Rat(a.num * b.den + b.num * a.den, a.den * b.den))
RatSub(a, b) == Norm(Rat(a.num * b.den - b.num * a.den, a.den * b.den))
RatInt(n) == Rat(n, 1)
\* 1 / rate, for rate # 0
Inverse(r) == IF r.num < 0 THEN Rat(-r.den, -r.num) ELSE Rat(r.den, r.num)

RECURSIVE Log2(_)
Log2(n) == IF n <= 1 THEN 0 ELSE 1 + Log2(n \div 2)

\* math.log(rate) in units of ln 2, for a positive power of two
MathLog(r) == Log2(r.num) - Log2(r.den)

\* Rates on the wire: 1.0 and 2.0, and the invalid 0.0 and -1.0
GoodRates == { Rat(1, 1), Rat(2, 1) }
BadRates == { Rat(0, 1), Rat(-1, 1) }

\* One decoded quote, as unmarshal_message builds it
Quote(c1, c2, rate, ts) ==
    [ currency1 |-> c1, currency2 |-> c2, rate |-> rate, timestamp |-> ts ]

\* The quotes fed to the ledger: both directions of one pair with every
\* timestamp (USD/EUR at 1.0 and 2.0, EUR/USD at 0.5, so that no cycle is
\* profitable and the ledger is all that changes), and quotes with a zero
\* timestamp, a zero rate and a negative rate
LedgerQuotes ==
    { Quote("USD", "EUR", r, ts) : r \in GoodRates, ts \in 1 .. MaxTs }
    \cup { Quote("EUR", "USD", Rat(1, 2), ts) : ts \in 1 .. MaxTs }
    \cup { Quote("USD", "EUR", r, 0) : r \in GoodRates }
    \cup { Quote("USD", "EUR", r, ts) : r \in BadRates, ts \in 1 .. 2 }

\* The quotes fed to the detector: every market at the valid rates, and
\* EUR/USD at 0.5 (the exact inverse of USD/EUR at 2.0), one timestamp
DetectorQuotes ==
    { Quote(m[1], m[2], r, 1) : m \in Markets, r \in GoodRates }
    \cup { Quote("EUR", "USD", Rat(1, 2), 1) }

VARIABLES
    pc,                    \* position in receive_forex_quotes
    pending,               \* number of records of the batch not yet processed
    now,                   \* datetime.utcnow(), tenths of a second
    latest_timestamp,      \* self.latest_timestamp
    quotes_dict,           \* self.quotes_dict, in insertion order
    graph,                 \* self.graph
    total_session_profit,  \* self.total_session_profit
    verdict,               \* trace line of the last record processed
    removed,               \* markets removed by the expiry of this pass
    current_time,          \* clock read by the expiry of this pass
    result,                \* what the last detection pass printed
    cycle,                 \* cycle reconstructed by the last detection pass
    route,                 \* the cycle as display_arbitrage walked it
    ninput,                \* records and empty datagrams received so far
    accepted,              \* history: the timestamps accepted per market
    changed,               \* history: since the last expiry a record was
                           \* stored or the clock advanced
    repeat,                \* history: the expiry of this pass ran at the clock
                           \* value of the one before it, with no record
                           \* stored in between
    found_edge,            \* negative_cycle_edge handed to reconstruct_negative_cycle
    found_predecessor,     \* predecessor handed to it
    walk_current,          \* current, the loop variable of the predecessor walk
    walk_visited,          \* visited, the vertices the walk has appended
    rotations,             \* iterations of the rotation loop so far
    wire_input,            \* quote_sequence, the argument of marshal_message
    wire_bytes,            \* the bytes of a datagram
    wire_quotes,           \* quotes, what unmarshal_message returned
    wire_clock             \* history: what datetime.now() returned to each
                           \* read of marshal_message, in microseconds

vars ==
    << pc, pending, now, latest_timestamp, quotes_dict, graph,
       total_session_profit, verdict, removed, current_time, result, cycle,
       route, ninput, accepted, changed, repeat, found_edge,
       found_predecessor, walk_current, walk_visited, rotations, wire_input, wire_bytes,
       wire_quotes, wire_clock >>

\* The state of one cycle resolution, and of one datagram on the wire
resolver ==
    << found_edge, found_predecessor, walk_current, walk_visited, rotations >>
wire == << wire_input, wire_bytes, wire_quotes, wire_clock >>

ledger == << latest_timestamp, quotes_dict, graph, total_session_profit >>

Empty == [ x \in {} |-> 0 ]

\* The value None where an edge <<u, v>> is expected
NoEdge == <<>>

\* The subscriber after __init__ at position p, the clock at t, with the
\* live entries d
Start(p, t, d) ==
    /\ pc = p
    /\ pending = 0
    /\ now = t
    /\ latest_timestamp = Empty
    /\ quotes_dict = d
    /\ graph = Empty
    /\ total_session_profit = RatInt(0)
    /\ verdict = "none"
    /\ removed = <<>>
    /\ current_time = 0
    /\ result = "none"
    /\ cycle = <<>>
    /\ route = <<>>
    /\ ninput = 0
    /\ accepted = Empty
    /\ changed = TRUE
    /\ repeat = FALSE

\* No cycle is being resolved
IdleResolver ==
    /\ found_edge = NoEdge
    /\ found_predecessor = Empty
    /\ walk_current = None
    /\ walk_visited = {}
    /\ rotations = 0

\* No datagram is being encoded or decoded
IdleWire ==
    /\ wire_input = <<>>
    /\ wire_bytes = <<>>
    /\ wire_quotes = <<>>
    /\ wire_clock = <<>>

\* The subscriber at the top of the receive loop
Init == Start("recv", 0, <<>>) /\ IdleResolver /\ IdleWire

\* ------------------------------------------------------- dict operations
\* self.quotes_dict is a Python dict: keys in insertion order, an assignment
\* to an existing key keeps its position, a deleted key re-enters at the end.
Keys(d) == { d[i].market : i \in 1 .. Len(d) }

IndexOf(d, m) == CHOOSE i \in 1 .. Len(d) : d[i].market = m

DictGet(d, m) == d[IndexOf(d, m)]

DictSet(d, m, e) ==
    IF m \in Keys(d) THEN [d EXCEPT ![IndexOf(d, m)] = e] ELSE Append(d, e)

\* f[k] = v on a dict whose order is never read
MapSet(f, k, v) == [ x \in DOMAIN f \cup {k} |-> IF x = k THEN v ELSE f[x] ]

\* ---------------------------------------------------------- process_quotes
\* all([currency1, currency2, rate, timestamp]): every field is truthy
Complete(q) ==
    /\ q.currency1 # ""
    /\ q.currency2 # ""
    /\ q.rate.num # 0
    /\ q.timestamp # 0

Market(q) == << q.currency1, q.currency2 >>

\* Mutant: a repeated timestamp passes the sequence check (< for <=)
OutOfSequence_Strict(q) ==
    /\ Market(q) \in DOMAIN latest_timestamp
    /\ q.timestamp < latest_timestamp[Market(q)]

\* Mutant: the sequence check applies to markets with a live entry only
OutOfSequence_LiveOnly(q) ==
    /\ Market(q) \in Keys(quotes_dict)
    /\ q.timestamp <= latest_timestamp[Market(q)]

\* market in self.latest_timestamp and timestamp <= self.latest_timestamp[market]
OutOfSequence(q) ==
    /\ Market(q) \in DOMAIN latest_timestamp
    /\ q.timestamp <= latest_timestamp[Market(q)]

\* math.log raises ValueError on a rate that is not positive
LogRaises(rate) == rate.num <= 0

\* What the loop body does with one record: skipped as incomplete, ignored
\* as out of sequence, stored and then failed in math.log, or accepted
QuoteVerdict(q) ==
    IF ~Complete(q) THEN "incomplete"
    ELSE IF OutOfSequence(q) THEN "out_of_sequence"
    ELSE IF LogRaises(q.rate) THEN "value_error"
    ELSE "accepted"

\* The record reaches the two assignments of lines 143-144
Stored(v) == v \in { "accepted", "value_error" }

StoreTimestamp(lt, q, v) ==
    IF Stored(v) THEN MapSet(lt, Market(q), q.timestamp) ELSE lt

\* Mutant: the entry is written before the sequence check
StoreQuote_BeforeCheck(d, q, v, t) ==
    IF v # "incomplete"
    THEN DictSet(d, Market(q),
                 [ market |-> Market(q), price |-> q.rate, time |-> t ])
    ELSE d

StoreQuote(d, q, v, t) ==
    IF Stored(v)
    THEN DictSet(d, Market(q),
                 [ market |-> Market(q), price |-> q.rate, time |-> t ])
    ELSE d

\* self.graph after the two setdefault assignments
UpdateGraph(g, q, v) ==
    IF v = "accepted"
    THEN MapSet(MapSet(g, << q.currency1, q.currency2 >>, -MathLog(q.rate)),
                << q.currency2, q.currency1 >>, -MathLog(Inverse(q.rate)))
    ELSE g

\* One iteration of the loop over the batch, on the next record q
ProcessQuote(q) ==
    /\ pc = "process"
    /\ pending > 0
    /\ LET v == QuoteVerdict(q)
       IN  /\ verdict' = v
           /\ pending' = pending - 1
           /\ latest_timestamp' = StoreTimestamp(latest_timestamp, q, v)
           /\ quotes_dict' = StoreQuote(quotes_dict, q, v, now)
           /\ graph' = UpdateGraph(graph, q, v)
           /\ accepted' =
                  IF Stored(v)
                  THEN MapSet(accepted, Market(q),
                              (IF Market(q) \in DOMAIN accepted
                               THEN accepted[Market(q)] ELSE {})
                              \cup { q.timestamp })
                  ELSE accepted
           /\ changed' = (changed \/ Stored(v))
           /\ pc' = IF v = "value_error" THEN "crashed"
                    ELSE IF pending = 1 THEN "expire"
                    ELSE "process"
    /\ UNCHANGED << now, total_session_profit, removed, current_time, repeat,
                    result, cycle, route, ninput, resolver, wire >>

\* ------------------------------------------------------ remove_stale_quotes
\* Mutant: an entry aged exactly QUOTE_EXPIRY is removed (>= for >)
Stale_AtLeast(t, entry) == t - entry.time >= QUOTE_EXPIRY

\* Mutant: the age is computed with its operands swapped
Stale_Swapped(t, entry) == entry.time - t > QUOTE_EXPIRY

Stale(t, entry) == t - entry.time > QUOTE_EXPIRY

\* Mutant: deleting while iterating the live key list skips the key that
\* follows a deleted one
RECURSIVE Fresh_SkipNext(_, _)
Fresh_SkipNext(t, d) ==
    IF d = <<>> THEN <<>>
    ELSE IF Stale(t, Head(d))
         THEN IF Len(d) = 1 THEN <<>>
              ELSE << d[2] >> \o Fresh_SkipNext(t, Tail(Tail(d)))
    ELSE << Head(d) >> \o Fresh_SkipNext(t, Tail(d))

\* The loop over list(self.quotes_dict.keys()): what is left of d, and the
\* markets deleted, in order
RECURSIVE Fresh(_, _)
Fresh(t, d) ==
    IF d = <<>> THEN <<>>
    ELSE IF Stale(t, Head(d)) THEN Fresh(t, Tail(d))
    ELSE << Head(d) >> \o Fresh(t, Tail(d))

RECURSIVE StaleMarkets(_, _)
StaleMarkets(t, d) ==
    IF d = <<>> THEN <<>>
    ELSE IF Stale(t, Head(d)) THEN << Head(d).market >> \o StaleMarkets(t, Tail(d))
    ELSE StaleMarkets(t, Tail(d))

RemoveStaleQuotes ==
    /\ pc = "expire"
    /\ current_time' = now
    /\ quotes_dict' = Fresh(now, quotes_dict)
    /\ removed' = StaleMarkets(now, quotes_dict)
    /\ repeat' = ~changed
    /\ changed' = FALSE
    /\ pc' = "detect"
    /\ verdict' = "none"
    /\ UNCHANGED << pending, now, latest_timestamp, graph, total_session_profit,
                    result, cycle, route, ninput, accepted, resolver, wire >>

\* ----------------------------------------------- BellmanFord (bellman_ford)
\* A graph is its vertex set and its edges <<u, v, w>> in insertion order.
NewGraph == [ vertices |-> {}, edges |-> <<>> ]

add_edge(bf, u, v, w) ==
    [ vertices |-> bf.vertices \cup {u, v},
      edges |-> Append(bf.edges, << u, v, w >>) ]

\* distance is a map on the vertices reached so far (the others are at
\* +infinity); predecessor is a map on the vertices relaxed so far.
Relaxes(st, e) ==
    /\ e[1] \in DOMAIN st.distance
    /\ \/ e[2] \notin DOMAIN st.distance
       \/ st.distance[e[1]] + e[3] < st.distance[e[2]]

Relax(st, e) ==
    IF Relaxes(st, e)
    THEN [ distance |-> MapSet(st.distance, e[2], st.distance[e[1]] + e[3]),
           predecessor |-> MapSet(st.predecessor, e[2], e[1]) ]
    ELSE st

RECURSIVE RelaxAll(_, _)
RelaxAll(st, edges) ==
    IF edges = <<>> THEN st ELSE RelaxAll(Relax(st, Head(edges)), Tail(edges))

RECURSIVE RelaxPasses(_, _, _)
RelaxPasses(st, edges, n) ==
    IF n <= 0 THEN st ELSE RelaxPasses(RelaxAll(st, edges), edges, n - 1)

\* The first edge, in insertion order, that still relaxes; None if none does
WitnessEdge(st, edges) ==
    LET hits == { i \in 1 .. Len(edges) : Relaxes(st, edges[i]) }
    IN  IF hits = {} THEN NoEdge
        ELSE LET i == CHOOSE k \in hits : \A j \in hits : k <= j
             IN  << edges[i][1], edges[i][2] >>

shortest_paths(bf, start) ==
    LET st0 == [ distance |-> MapSet(Empty, start, 0), predecessor |-> Empty ]
        st == RelaxPasses(st0, bf.edges, Cardinality(bf.vertices) - 1)
    IN  [ distance |-> st.distance, predecessor |-> st.predecessor,
          negative_cycle_edge |-> WitnessEdge(st, bf.edges) ]

\* -------------------------------------------------------------- build_graph
RECURSIVE AddQuotes(_, _)
AddQuotes(bf, d) ==
    IF d = <<>> THEN bf
    ELSE AddQuotes(add_edge(bf, Head(d).market[1], Head(d).market[2],
                            -MathLog(Head(d).price)),
                   Tail(d))

\* Mutant: the weight of an edge is +log(rate)
RECURSIVE AddQuotes_PositiveLog(_, _)
AddQuotes_PositiveLog(bf, d) ==
    IF d = <<>> THEN bf
    ELSE AddQuotes_PositiveLog(add_edge(bf, Head(d).market[1], Head(d).market[2],
                                        MathLog(Head(d).price)),
                               Tail(d))

build_graph_PositiveLog(d) == AddQuotes_PositiveLog(NewGraph, d)

build_graph(d) == AddQuotes(NewGraph, d)

\* ----------------------------------------------------------- find_arbitrage
find_arbitrage(bf) ==
    IF USD \notin bf.vertices
    THEN [ negative_cycle_edge |-> NoEdge, predecessor |-> Empty ]
    ELSE LET sp == shortest_paths(bf, USD)
         IN  [ negative_cycle_edge |-> sp.negative_cycle_edge,
               predecessor |-> IF sp.negative_cycle_edge # NoEdge
                               THEN sp.predecessor ELSE Empty ]

\* ------------------------------------------------ reconstruct_negative_cycle
PredGet(predecessor, c) ==
    IF c \in DOMAIN predecessor THEN predecessor[c] ELSE None

RECURSIVE Walk(_, _, _, _, _)
Walk(path, current, visited, v, predecessor) ==
    IF current = v \/ current = None \/ current \in visited THEN path
    ELSE Walk(Append(path, current), PredGet(predecessor, current),
              visited \cup {current}, v, predecessor)

Reverse(s) == [ i \in 1 .. Len(s) |-> s[Len(s) + 1 - i] ]

reconstruct_negative_cycle(negative_cycle_edge, predecessor) ==
    LET u == negative_cycle_edge[1]
        v == negative_cycle_edge[2]
        path == Append(Walk(<< v >>, u, {}, v, predecessor), v)
    IN  IF Len(path) < 3 THEN <<>> ELSE Reverse(path)

\* --------------------------------------------------------- display_arbitrage
InCycle(c, cyc) == \E i \in 1 .. Len(cyc) : cyc[i] = c

\* while cycle[0] != 'USD': cycle.append(cycle.pop(0))
RECURSIVE Rotate(_)
Rotate(cyc) ==
    IF Head(cyc) = USD THEN cyc ELSE Rotate(Append(Tail(cyc), Head(cyc)))

\* quotes_dict.get(cross, {}).get('price') or 1 / quotes_dict[reverse]['price']
\* The second lookup raises KeyError when the reverse market is absent.
KeyError == Rat(0, 0)

HopRate(d, from, to) ==
    IF << from, to >> \in Keys(d) /\ DictGet(d, << from, to >>).price.num # 0
    THEN DictGet(d, << from, to >>).price
    ELSE IF << to, from >> \in Keys(d)
         THEN Inverse(DictGet(d, << to, from >>).price)
         ELSE KeyError

RECURSIVE Convert(_, _, _, _)
Convert(d, cyc, i, amount) ==
    IF i >= Len(cyc) THEN amount
    ELSE LET rate == HopRate(d, cyc[i], cyc[i + 1])
         IN  IF rate = KeyError THEN KeyError
             ELSE Convert(d, cyc, i + 1, RatMul(amount, rate))

\* The profit added to total_session_profit, or KeyError when a lookup raises
Simulate(d, cyc) ==
    LET amount == Convert(d, cyc, 1, RatInt(starting_amount))
    IN  IF amount = KeyError THEN KeyError
        ELSE RatSub(amount, RatInt(starting_amount))

display_arbitrage(d, cyc) ==
    IF ~InCycle(USD, cyc)
    THEN [ printed |-> "no_usd_cycle", route |-> <<>>, profit |-> RatInt(0) ]
    ELSE LET profit == Simulate(d, Rotate(cyc))
         IN  IF profit = KeyError
             THEN [ printed |-> "key_error", route |-> Rotate(cyc),
                    profit |-> RatInt(0) ]
             ELSE [ printed |-> "arbitrage", route |-> Rotate(cyc),
                    profit |-> profit ]

\* ---------------------------------------------------------- detect_arbitrage
\* Mutant: the reconstructed cycle is simulated without the USD filter
detect_arbitrage_NoFilter(d) ==
    LET found == find_arbitrage(build_graph(d))
    IN  IF found.negative_cycle_edge # NoEdge
        THEN LET cyc == reconstruct_negative_cycle(found.negative_cycle_edge,
                                                   found.predecessor)
                 profit == Simulate(d, cyc)
             IN  IF profit = KeyError
                 THEN [ cycle |-> cyc, printed |-> "key_error", route |-> cyc,
                        profit |-> RatInt(0) ]
                 ELSE [ cycle |-> cyc, printed |-> "arbitrage", route |-> cyc,
                        profit |-> profit ]
        ELSE [ cycle |-> <<>>, printed |-> "no_arbitrage", route |-> <<>>,
               profit |-> RatInt(0) ]

\* The pass: the cycle reconstructed, what was printed, the cycle as walked
\* by the simulation, and the profit added to total_session_profit
detect_arbitrage(d) ==
    LET found == find_arbitrage(build_graph(d))
    IN  IF found.negative_cycle_edge # NoEdge
        THEN LET cyc == reconstruct_negative_cycle(found.negative_cycle_edge,
                                                   found.predecessor)
             IN  IF InCycle(USD, cyc)
                 THEN [ cycle |-> cyc ] @@ display_arbitrage(d, cyc)
                 ELSE [ cycle |-> cyc, printed |-> "skipping", route |-> <<>>,
                        profit |-> RatInt(0) ]
        ELSE [ cycle |-> <<>>, printed |-> "no_arbitrage", route |-> <<>>,
               profit |-> RatInt(0) ]

DetectArbitrage ==
    /\ pc = "detect"
    /\ LET pass == detect_arbitrage(quotes_dict)
       IN  /\ cycle' = pass.cycle
           /\ route' = pass.route
           /\ result' = pass.printed
           /\ total_session_profit' = RatAdd(total_session_profit, pass.profit)
           /\ pc' = IF pass.printed = "key_error" THEN "crashed" ELSE "recv"
    /\ removed' = <<>>
    /\ current_time' = 0
    /\ repeat' = FALSE
    /\ UNCHANGED << pending, now, latest_timestamp, quotes_dict, graph, verdict,
                    ninput, accepted, changed, resolver, wire >>

\* ------------------------------------------------------ receive_forex_quotes
\* recvfrom and unmarshal_message hand the next batch of n records to the
\* pipeline; the loop of process_quotes reads them one by one.
Receive ==
    /\ pc = "recv"
    /\ ninput < MaxInput
    /\ \E n \in 0 .. MaxInput - ninput :
          /\ pending' = n
          /\ ninput' = ninput + (IF n = 0 THEN 1 ELSE n)
          /\ pc' = IF n = 0 THEN "expire" ELSE "process"
    /\ result' = "none"
    /\ cycle' = <<>>
    /\ route' = <<>>
    /\ UNCHANGED << now, latest_timestamp, quotes_dict, graph,
                    total_session_profit, verdict, removed, current_time,
                    accepted, changed, repeat, resolver, wire >>

\* The wall clock advances between any two steps
TickSteps == { 6, 10, 15 }

Tick ==
    /\ pc # "crashed"
    /\ \E d \in TickSteps :
          /\ now + d <= MaxTime
          /\ now' = now + d
    /\ changed' = TRUE
    /\ UNCHANGED << pc, pending, latest_timestamp, quotes_dict, graph,
                    total_session_profit, verdict, removed, current_time,
                    result, cycle, route, ninput, accepted, repeat, resolver,
                    wire >>

Next ==
    \/ Receive
    \/ \E q \in LedgerQuotes : ProcessQuote(q)
    \/ RemoveStaleQuotes
    \/ DetectArbitrage
    \/ Tick

Spec == Init /\ [][Next]_vars

NextDetector ==
    \/ Receive
    \/ \E q \in DetectorQuotes : ProcessQuote(q)
    \/ RemoveStaleQuotes
    \/ DetectArbitrage

SpecDetector == Init /\ [][NextDetector]_vars

\* ---------------------------------------------------- fxp_bytes_subscriber
\* A str is the sequence of its characters and a bytes object the sequence
\* of its bytes (0 .. 255).  e_acute is U+00E9.
Chars == { "U", "S", "D", "E", "R", "G", "B", "P", "/", "e_acute" }

\* ord(c)
Ord(c) ==
    CASE c = "U" -> 85 [] c = "S" -> 83 [] c = "D" -> 68 [] c = "E" -> 69
      [] c = "R" -> 82 [] c = "G" -> 71 [] c = "B" -> 66 [] c = "P" -> 80
      [] c = "/" -> 47 [] c = "e_acute" -> 233

\* chr(b), for the code points of Chars
Chr(b) == CHOOSE c \in Chars : Ord(c) = b

\* A call returns a value or raises
Ok(v) == [ error |-> "none", value |-> v ]
Raise(e) == [ error |-> e, value |-> <<>> ]

Min(a, b) == IF a <= b THEN a ELSE b

\* s[a:b]
Slice(s, a, b) == SubSeq(s, a + 1, Min(b, Len(s)))

\* text.encode('ascii')
Encode(text) ==
    IF \E i \in 1 .. Len(text) : Ord(text[i]) >= 128
    THEN Raise("UnicodeEncodeError")
    ELSE Ok([ i \in 1 .. Len(text) |-> Ord(text[i]) ])

\* data.decode('ascii')
Decode(data) ==
    IF \E i \in 1 .. Len(data) : data[i] >= 128
    THEN Raise("UnicodeDecodeError")
    ELSE Ok([ i \in 1 .. Len(data) |-> Chr(data[i]) ])

RECURSIVE Pow2(_)
Pow2(n) == IF n <= 0 THEN 1 ELSE 2 * Pow2(n - 1)

\* struct.pack('<f', price), for a price that float32 holds exactly (num
\* below 2^24, den a power of two): sign, biased exponent and 23-bit
\* mantissa, least significant byte first
PackFloat(price) ==
    IF price.num = 0 THEN << 0, 0, 0, 0 >>
    ELSE LET a == Abs(price.num)
             L == Log2(a)
             biased == L - Log2(price.den) + 127
             mant == (a - Pow2(L)) * Pow2(23 - L)
             sign == IF price.num < 0 THEN 1 ELSE 0
         IN  << mant % 256,
                (mant \div 256) % 256,
                (biased % 2) * 128 + mant \div 65536,
                sign * 128 + biased \div 2 >>

\* struct.unpack('<f', data)[0], for zero and for a normal number whose
\* numerator and denominator stay below 2^31
UnpackFloat(data) ==
    IF Len(data) # 4 THEN Raise("struct.error")
    ELSE LET sign == data[4] \div 128
             biased == (data[4] % 128) * 2 + data[3] \div 128
             mant == (data[3] % 128) * 65536 + data[2] * 256 + data[1]
             m == Pow2(23) + mant
             x == biased - 150
             mag == IF biased = 0 /\ mant = 0 THEN Rat(0, 1)
                    ELSE IF x >= 0 THEN Rat(m * Pow2(x), 1)
                    ELSE Norm(Rat(m, Pow2(-x)))
         IN  Ok(IF sign = 1 THEN Rat(-mag.num, mag.den) ELSE mag)

\* The k bytes of n, most significant first
RECURSIVE BytesBE(_, _)
BytesBE(n, k) ==
    IF k = 0 THEN <<>> ELSE Append(BytesBE(n \div 256, k - 1), n % 256)

RECURSIVE IntBE(_)
IntBE(data) ==
    IF data = <<>> THEN 0
    ELSE IntBE(SubSeq(data, 1, Len(data) - 1)) * 256 + data[Len(data)]

\* struct.pack('>Q', timestamp)
PackQ(timestamp) ==
    IF timestamp < 0 THEN Raise("struct.error") ELSE Ok(BytesBE(timestamp, 8))

\* struct.unpack('>Q', data)[0]
UnpackQ(data) ==
    IF Len(data) # 8 THEN Raise("struct.error") ELSE Ok(IntBE(data))

\* int(timestamp * 1_000_000): truncation towards zero
Micros(timestamp) ==
    IF timestamp.num < 0
    THEN -((-timestamp.num * 1000000) \div timestamp.den)
    ELSE (timestamp.num * 1000000) \div timestamp.den

\* quote.get('time') of a quote that has no 'time'
NoTime == Rat(0, 0)

\* One quote as marshal_message reads it
WireQuote(cross, price, time) == [ cross |-> cross, price |-> price, time |-> time ]

\* Mutant: the second code is sliced from the separator on
Currency2_FromSeparator(cross) == Slice(cross, 3, Len(cross))

\* quote['cross'][:3] and quote['cross'][4:]
Currency1(cross) == Slice(cross, 0, 3)

Currency2(cross) == Slice(cross, 4, Len(cross))

padding == [ i \in 1 .. 14 |-> 0 ]

\* The frame of one quote; clock holds the values, in microseconds, that the
\* reads of datetime.now() still to come return, and a quote without a
\* numeric 'time' reads the first of them
MarshalQuote(quote, clock) ==
    LET currency1 == Encode(Currency1(quote.cross))
        currency2 == Encode(Currency2(quote.cross))
        rate == PackFloat(quote.price)
        timestamp == PackQ(IF quote.time = NoTime THEN Head(clock)
                           ELSE Micros(quote.time))
    IN  IF currency1.error # "none" THEN currency1
        ELSE IF currency2.error # "none" THEN currency2
        ELSE IF timestamp.error # "none" THEN timestamp
        ELSE Ok(currency1.value \o currency2.value \o rate \o timestamp.value
                    \o padding)

\* The loop of marshal_message from one quote on: datetime.now() is read
\* inside the loop, once for every quote without a numeric 'time'
RECURSIVE MarshalFrom(_, _, _)
MarshalFrom(message, quote_sequence, clock) ==
    IF quote_sequence = <<>> THEN Ok(message)
    ELSE LET quote == Head(quote_sequence)
             frame == MarshalQuote(quote, clock)
         IN  IF frame.error # "none" THEN frame
             ELSE MarshalFrom(message \o frame.value, Tail(quote_sequence),
                              IF quote.time = NoTime THEN Tail(clock) ELSE clock)

marshal_message(quote_sequence, clock) == MarshalFrom(<<>>, quote_sequence, clock)

\* The number of times marshal_message(quote_sequence) reads datetime.now():
\* once for each quote without 'time' that the loop gets to encode
RECURSIVE ClockReads(_)
ClockReads(quote_sequence) ==
    IF quote_sequence = <<>> THEN 0
    ELSE LET quote == Head(quote_sequence)
         IN  IF MarshalQuote(quote, << 0 >>).error # "none" THEN 0
             ELSE (IF quote.time = NoTime THEN 1 ELSE 0)
                      + ClockReads(Tail(quote_sequence))

\* Microseconds that may pass between two reads of datetime.now()
ClockSteps == { 0, 1, 100000 }

\* The values n successive reads of datetime.now() may return, the first
\* of them t
RECURSIVE Clocks(_, _)
Clocks(t, n) ==
    IF n = 0 THEN { <<>> }
    ELSE { << t >> \o c : c \in UNION { Clocks(t + s, n - 1) : s \in ClockSteps } }

quote_size == 32

\* The body of the loop of unmarshal_message on one chunk
UnmarshalChunk(chunk) ==
    LET currency1 == Decode(Slice(chunk, 0, 3))
        currency2 == Decode(Slice(chunk, 3, 6))
        rate == UnpackFloat(Slice(chunk, 6, 10))
        timestamp == UnpackQ(Slice(chunk, 10, 18))
    IN  IF currency1.error # "none" THEN currency1
        ELSE IF currency2.error # "none" THEN currency2
        ELSE IF rate.error # "none" THEN rate
        ELSE IF timestamp.error # "none" THEN timestamp
        ELSE Ok([ currency1 |-> currency1.value, currency2 |-> currency2.value,
                  rate |-> rate.value, timestamp |-> timestamp.value ])

\* for i in range(0, len(data), quote_size), from offset i on
RECURSIVE UnmarshalFrom(_, _, _)
UnmarshalFrom(quotes, data, i) ==
    IF i >= Len(data) THEN Ok(quotes)
    ELSE LET quote == UnmarshalChunk(Slice(data, i, i + quote_size))
         IN  IF quote.error # "none" THEN quote
             ELSE UnmarshalFrom(Append(quotes, quote.value), data, i + quote_size)

unmarshal_message(data) == UnmarshalFrom(<<>>, data, 0)

\* The crosses and quotes handed to marshal_message
UsdEur == << "U", "S", "D", "/", "E", "U", "R" >>
EurGbp == << "E", "U", "R", "/", "G", "B", "P" >>

WireQuotes ==
    { WireQuote(UsdEur, Rat(1, 1), Rat(1, 1)),
      WireQuote(EurGbp, Rat(3, 2), Rat(3, 2)),
      WireQuote(EurGbp, Rat(1, 2), Rat(1, 128)),
      WireQuote(UsdEur, Rat(2, 1), NoTime),
      WireQuote(UsdEur, Rat(-1, 1), Rat(0, 1)),
      WireQuote(<< "U", "S", "D", "/", "E", "U", "e_acute" >>, Rat(1, 1), Rat(1, 1)),
      WireQuote(UsdEur, Rat(1, 1), Rat(-1, 1)) }

MaxQuotes == 2

WireInputs == UNION { [ 1 .. n -> WireQuotes ] : n \in 0 .. MaxQuotes }

\* A publisher is about to encode a quote sequence, 2.0 s after the epoch
InitWire ==
    /\ Start("marshal", 20, <<>>)
    /\ IdleResolver
    /\ wire_input \in WireInputs
    /\ wire_bytes = <<>>
    /\ wire_quotes = <<>>
    /\ wire_clock = <<>>

\* The publisher calls marshal_message; the clock moves on between the reads
\* the call makes of it
Marshal ==
    /\ pc = "marshal"
    /\ \E clock \in Clocks(now * 100000, ClockReads(wire_input)) :
          LET sent == marshal_message(wire_input, clock)
          IN  /\ wire_bytes' = sent.value
              /\ wire_clock' = clock
              /\ pc' = IF sent.error # "none" THEN "crashed" ELSE "send"
    /\ UNCHANGED << pending, now, ledger, verdict, removed, current_time, result,
                    cycle, route, ninput, accepted, changed, repeat, resolver,
                    wire_input, wire_quotes >>

\* The datagram that reaches the subscriber: the message, a prefix of it,
\* or the message with the first byte of one frame replaced by 0xFF
Datagram ==
    /\ pc = "send"
    /\ \/ \E n \in 0 .. Len(wire_bytes) : wire_bytes' = SubSeq(wire_bytes, 1, n)
       \/ \E k \in 0 .. MaxQuotes :
             /\ quote_size * k < Len(wire_bytes)
             /\ wire_bytes' = [ wire_bytes EXCEPT ![quote_size * k + 1] = 255 ]
    /\ pc' = "recv"
    /\ UNCHANGED << pending, now, ledger, verdict, removed, current_time, result,
                    cycle, route, ninput, accepted, changed, repeat, resolver,
                    wire_input, wire_quotes, wire_clock >>

\* recvfrom and unmarshal_message; an exception other than socket.timeout
\* leaves the receive loop
Unmarshal ==
    /\ pc = "recv"
    /\ LET got == unmarshal_message(wire_bytes)
       IN  /\ wire_quotes' = got.value
           /\ pending' = Len(got.value)
           /\ pc' = IF got.error # "none" THEN "crashed"
                    ELSE IF got.value = <<>> THEN "expire"
                    ELSE "process"
    /\ UNCHANGED << now, ledger, verdict, removed, current_time, result, cycle,
                    route, ninput, accepted, changed, repeat, resolver,
                    wire_input, wire_bytes, wire_clock >>

NextWire ==
    \/ Marshal
    \/ Datagram
    \/ Unmarshal

SpecWire == InitWire /\ [][NextWire]_vars

\* ------------------------------------------- one cycle resolution, by steps
\* detect_arbitrage from the return of find_arbitrage on, for any witness
\* edge and any predecessor map over the currencies, with the loops of
\* reconstruct_negative_cycle and display_arbitrage taken one iteration at a
\* time.
Entry(m, price) == [ market |-> m, price |-> price, time |-> 0 ]

ResolverLedgers ==
    { << Entry(<< "USD", "EUR" >>, Rat(1, 1)), Entry(<< "EUR", "GBP" >>, Rat(1, 1)),
         Entry(<< "GBP", "USD" >>, Rat(2, 1)) >>,
      << Entry(<< "USD", "EUR" >>, Rat(2, 1)), Entry(<< "EUR", "USD" >>, Rat(1, 1)) >>,
      << Entry(<< "USD", "EUR" >>, Rat(2, 1)) >> }

PredecessorMaps == UNION { [ S -> Currencies ] : S \in SUBSET Currencies }

InitResolver ==
    /\ \E d \in ResolverLedgers : Start("resolve", 0, d)
    /\ IdleWire
    /\ found_edge \in Currencies \X Currencies
    /\ found_predecessor \in PredecessorMaps
    /\ walk_current = None
    /\ walk_visited = {}
    /\ rotations = 0

\* u, v = negative_cycle_edge; cycle = [v]; current = u; visited = set()
ReconstructStart ==
    /\ pc = "resolve"
    /\ cycle' = << found_edge[2] >>
    /\ walk_current' = found_edge[1]
    /\ walk_visited' = {}
    /\ pc' = "walk"
    /\ UNCHANGED << pending, now, ledger, verdict, removed, current_time, result,
                    route, ninput, accepted, changed, repeat, found_edge,
                    found_predecessor, rotations, wire >>

\* Mutant: the walk has no visited check
WalkContinues_NoVisited(current, visited, v) == current # v /\ current # None

\* The walk takes one more iteration: the while condition holds and the
\* visited check does not break
WalkContinues(current, visited, v) ==
    current # v /\ current # None /\ current \notin visited

\* visited.add(current); cycle.append(current); current = predecessor.get(current)
WalkStep ==
    /\ pc = "walk"
    /\ WalkContinues(walk_current, walk_visited, found_edge[2])
    /\ walk_visited' = walk_visited \cup { walk_current }
    /\ cycle' = Append(cycle, walk_current)
    /\ walk_current' = PredGet(found_predecessor, walk_current)
    /\ UNCHANGED << pc, pending, now, ledger, verdict, removed, current_time,
                    result, route, ninput, accepted, changed, repeat, found_edge,
                    found_predecessor, rotations, wire >>

\* cycle.append(v); cycle.reverse(); the length check
WalkExit ==
    /\ pc = "walk"
    /\ ~WalkContinues(walk_current, walk_visited, found_edge[2])
    /\ cycle' = LET path == Append(cycle, found_edge[2])
                IN  IF Len(path) < 3 THEN <<>> ELSE Reverse(path)
    /\ pc' = "filter"
    /\ UNCHANGED << pending, now, ledger, verdict, removed, current_time, result,
                    route, ninput, accepted, changed, repeat, resolver, wire >>

\* if 'USD' in cycle: display_arbitrage(cycle), else the pass is skipped
AnchorFilter ==
    /\ pc = "filter"
    /\ IF InCycle(USD, cycle)
       THEN /\ route' = cycle
            /\ pc' = "rotate"
            /\ UNCHANGED result
       ELSE /\ result' = "skipping"
            /\ pc' = "recv"
            /\ UNCHANGED route
    /\ UNCHANGED << pending, now, ledger, verdict, removed, current_time, cycle,
                    ninput, accepted, changed, repeat, resolver, wire >>

\* The rotation loop has ended: cycle[0] == 'USD'
RotationDone(cyc) == cyc[1] = USD

\* cycle.append(cycle.pop(0))
RotateStep ==
    /\ pc = "rotate"
    /\ ~RotationDone(route)
    /\ route' = Append(Tail(route), Head(route))
    /\ rotations' = rotations + 1
    /\ UNCHANGED << pc, pending, now, ledger, verdict, removed, current_time,
                    result, cycle, ninput, accepted, changed, repeat, found_edge,
                    found_predecessor, walk_current, walk_visited, wire >>

\* The conversions along the rotated cycle and the profit; a KeyError in a
\* rate lookup leaves the receive loop
SimulateCycle ==
    /\ pc = "rotate"
    /\ RotationDone(route)
    /\ LET profit == Simulate(quotes_dict, route)
       IN  IF profit = KeyError
           THEN /\ result' = "key_error"
                /\ pc' = "crashed"
                /\ UNCHANGED total_session_profit
           ELSE /\ result' = "arbitrage"
                /\ pc' = "recv"
                /\ total_session_profit' = RatAdd(total_session_profit, profit)
    /\ UNCHANGED << pending, now, latest_timestamp, quotes_dict, graph, verdict,
                    removed, current_time, cycle, route, ninput, accepted,
                    changed, repeat, resolver, wire >>

NextResolver ==
    \/ ReconstructStart
    \/ WalkStep
    \/ WalkExit
    \/ AnchorFilter
    \/ RotateStep
    \/ SimulateCycle

SpecResolver == InitResolver /\ [][NextResolver]_vars

\* The steps compute what the operators reconstruct_negative_cycle, Rotate
\* and display_arbitrage compute
ResolverAgrees ==
    /\ pc \in { "filter", "rotate", "recv", "crashed" }
          => cycle = reconstruct_negative_cycle(found_edge, found_predecessor)
    /\ (pc = "rotate" /\ RotationDone(route)) => route = Rotate(cycle)
    /\ (pc \in { "recv", "crashed" } /\ InCycle(USD, cycle))
          => LET shown == display_arbitrage(quotes_dict, cycle)
             IN  /\ result = shown.printed
                 /\ route = shown.route
                 /\ total_session_profit = shown.profit

\* ===================================================================== claims

\* The step is one iteration of process_quotes on q that stored q
AcceptedStep(q) ==
    /\ verdict' \notin { "incomplete", "out_of_sequence" }
    /\ Market(q) \in DOMAIN latest_timestamp'
    /\ latest_timestamp'[Market(q)] = q.timestamp
    /\ Market(q) \in Keys(quotes_dict')
    /\ DictGet(quotes_dict', Market(q)) =
           [ market |-> Market(q), price |-> q.rate, time |-> now ]

NewerThanAllAccepted(q) ==
    \/ Market(q) \notin DOMAIN accepted
    \/ \A t \in accepted[Market(q)] : q.timestamp > t

ExpiryStep == pc = "expire" /\ pc' = "detect"

DetectionStep == pc = "detect" /\ pc' # "detect"

\* C1: a complete record is accepted exactly when its timestamp is greater
\* than every timestamp accepted before for its pair (the first one always
\* is), and latest_timestamp of a pair never decreases.
C1_MonotonicAcceptance ==
    [][ /\ \A q \in LedgerQuotes :
              (ProcessQuote(q) /\ Complete(q))
                  => (AcceptedStep(q) <=> NewerThanAllAccepted(q))
        /\ \A m \in DOMAIN latest_timestamp :
              /\ m \in DOMAIN latest_timestamp'
              /\ latest_timestamp'[m] >= latest_timestamp[m] ]_vars

\* Three records were fed for one pair; timestamps 2 and 3 were accepted and
\* the record between them was not.
C1_Witness ==
    /\ verdict = "accepted"
    /\ ninput = 3
    /\ pending = 0
    /\ \E m \in DOMAIN accepted :
          /\ DOMAIN accepted = {m}
          /\ accepted[m] = {2, 3}
          /\ latest_timestamp[m] = 3

\* C2: a record whose timestamp is not newer than latest_timestamp of its
\* pair leaves latest_timestamp, quotes_dict, graph and total_session_profit
\* as they were.
C2_RejectedUnchanged ==
    [][ \A q \in LedgerQuotes :
            ( /\ ProcessQuote(q)
              /\ Market(q) \in DOMAIN latest_timestamp
              /\ q.timestamp <= latest_timestamp[Market(q)] )
                => UNCHANGED ledger ]_vars

\* An out-of-sequence record has just been ignored while entries are live.
C2_Witness ==
    /\ verdict = "out_of_sequence"
    /\ quotes_dict # <<>>
    /\ now > 0

\* C3: expiry leaves latest_timestamp alone; for a pair whose entry expired,
\* a record not newer than latest_timestamp is rejected and creates no entry,
\* a newer one is accepted and recreates the entry.
C3_TrackerSurvivesExpiry ==
    [][ /\ ExpiryStep => latest_timestamp' = latest_timestamp
        /\ \A q \in LedgerQuotes :
              ( /\ ProcessQuote(q)
                /\ Complete(q)
                /\ Market(q) \in DOMAIN latest_timestamp
                /\ Market(q) \notin Keys(quotes_dict) )
                  => IF q.timestamp <= latest_timestamp[Market(q)]
                     THEN /\ Market(q) \notin Keys(quotes_dict')
                          /\ latest_timestamp' = latest_timestamp
                     ELSE AcceptedStep(q) ]_vars

\* Every tracked pair has expired and a record for one of them has just been
\* ignored as out of sequence.
C3_Witness ==
    /\ verdict = "out_of_sequence"
    /\ quotes_dict = <<>>
    /\ DOMAIN latest_timestamp # {}

\* C4: an expiry at clock value now deletes exactly the entries with
\* now - time > QUOTE_EXPIRY, keeps the others as they are, and the graph
\* built from what is left has one edge per entry kept.
C4_ExpiryExact ==
    [][ ExpiryStep =>
          /\ \A i \in 1 .. Len(quotes_dict) :
                LET e == quotes_dict[i]
                IN  IF now - e.time > QUOTE_EXPIRY
                    THEN e.market \notin Keys(quotes_dict')
                    ELSE /\ e.market \in Keys(quotes_dict')
                         /\ DictGet(quotes_dict', e.market) = e
          /\ Keys(quotes_dict') \subseteq Keys(quotes_dict)
          /\ LET edges == build_graph(quotes_dict').edges
             IN  { << edges[k][1], edges[k][2] >> : k \in 1 .. Len(edges) }
                     = Keys(quotes_dict') ]_vars

\* An expiry has removed an entry and kept one accepted 1.0 s before it.
C4_Witness ==
    /\ pc = "detect"
    /\ removed # <<>>
    /\ \E i \in 1 .. Len(quotes_dict) : current_time - quotes_dict[i].time = 10

\* C5: the pipeline runs receive, ingest, expire, detect in this order, and
\* every edge of the graph a detection pass builds comes from an entry that
\* was at most QUOTE_EXPIRY old at the expiry of the same pass.
C5_ExpireBeforeDetect ==
    [][ /\ (pc = "recv" /\ pc' # "recv") => pc' \in { "process", "expire" }
        /\ (pc' = "process" /\ pc # "process") => pc = "recv"
        /\ (pc' = "expire" /\ pc # "expire") => pc \in { "recv", "process" }
        /\ (pc' = "detect" /\ pc # "detect") => pc = "expire"
        /\ DetectionStep =>
              LET edges == build_graph(quotes_dict).edges
              IN  \A k \in 1 .. Len(edges) :
                     \E i \in 1 .. Len(quotes_dict) :
                        /\ quotes_dict[i].market = << edges[k][1], edges[k][2] >>
                        /\ edges[k][3] = -MathLog(quotes_dict[i].price)
                        /\ current_time - quotes_dict[i].time <= QUOTE_EXPIRY
      ]_vars

\* A detection pass has run on a ledger with a live entry after another
\* entry had expired.
C5_Witness ==
    /\ pc = "recv"
    /\ result # "none"
    /\ quotes_dict # <<>>
    /\ Cardinality(DOMAIN latest_timestamp) > Len(quotes_dict)

\* C6: an expiry that runs at the clock value of the expiry before it, with
\* no record stored in between, removes nothing and leaves quotes_dict as
\* it was.
C6_ExpiryIdempotent ==
    [][ (ExpiryStep /\ ~changed)
            => (quotes_dict' = quotes_dict /\ removed' = <<>>) ]_vars

\* The first pass accepted a record and its expiry removed the entry; the
\* second pass, on an empty batch at the same clock value, has run expiry
\* again.
C6_Witness ==
    /\ pc = "detect"
    /\ repeat
    /\ ninput = 2
    /\ quotes_dict = <<>>
    /\ DOMAIN latest_timestamp # {}

\* C7: quotes_dict never holds entries for both directions of a pair, and no
\* arbitrage is reported on a two-hop cycle A -> B -> A.
C7_OneEntryPerUnorderedPair ==
    /\ \A m \in Keys(quotes_dict) :
          m[1] # m[2] => << m[2], m[1] >> \notin Keys(quotes_dict)
    /\ result \in { "arbitrage", "key_error" } => Len(cycle) > 3

\* C8: the graph built for a detection pass has, for every live entry A/B
\* with rate r, the edge A -> B of weight -ln r and the edge B -> A of weight
\* +ln r, and no edge that comes from no live entry.
C8_BothDirections ==
    pc = "detect" =>
        LET edges == build_graph(quotes_dict).edges
            E == { edges[k] : k \in 1 .. Len(edges) }
        IN  /\ \A i \in 1 .. Len(quotes_dict) :
                  LET e == quotes_dict[i]
                  IN  /\ << e.market[1], e.market[2], -MathLog(e.price) >> \in E
                      /\ << e.market[2], e.market[1], MathLog(e.price) >> \in E
            /\ \A x \in E :
                  \E i \in 1 .. Len(quotes_dict) :
                     LET e == quotes_dict[i]
                     IN  \/ x = << e.market[1], e.market[2], -MathLog(e.price) >>
                         \/ x = << e.market[2], e.market[1], MathLog(e.price) >>

\* C9: a detection pass whose reconstructed cycle does not contain USD (the
\* empty cycle of a rejected reconstruction included) never simulates the
\* cycle: it prints the skip line or the no-opportunity line, walks no hop,
\* raises nothing and leaves total_session_profit as it was.
C9_AnchorFilter ==
    [][ (DetectionStep /\ \A i \in 1 .. Len(cycle') : cycle'[i] # USD)
            => /\ result' \in { "skipping", "no_arbitrage" }
               /\ route' = <<>>
               /\ pc' = "recv"
               /\ total_session_profit' = total_session_profit ]_vars

\* A negative cycle that does not contain USD was found and skipped.
C9_Witness ==
    /\ result = "skipping"
    /\ Len(cycle) >= 3
    /\ \A i \in 1 .. Len(cycle) : cycle[i] # USD

\* The directed cycles through USD, of two or three hops between distinct
\* currencies, that the live entries of d form
UsdCycles(d) ==
    { c \in UNION { [ 1 .. n -> Currencies ] : n \in 3 .. 4 } :
        /\ c[1] = USD
        /\ c[Len(c)] = USD
        /\ \A i, j \in 1 .. Len(c) - 1 : i # j => c[i] # c[j]
        /\ \A i \in 1 .. Len(c) - 1 : << c[i], c[i + 1] >> \in Keys(d) }

RECURSIVE RateProduct(_, _, _)
RateProduct(d, c, i) ==
    IF i >= Len(c) THEN RatInt(1)
    ELSE RatMul(DictGet(d, << c[i], c[i + 1] >>).price, RateProduct(d, c, i + 1))

Profitable(d, c) ==
    LET p == RateProduct(d, c, 1) IN p.num > p.den

\* C10: when the live entries form a directed cycle through USD whose
\* product of rates exceeds 1, the detection pass reports such a cycle as
\* USD, ..., USD and adds 100 * product - 100 to total_session_profit.
C10_DetectedArbitrage ==
    [][ (DetectionStep /\ \E c \in UsdCycles(quotes_dict) :
                             Profitable(quotes_dict, c))
            => /\ result' = "arbitrage"
               /\ route' \in UsdCycles(quotes_dict)
               /\ Profitable(quotes_dict, route')
               /\ total_session_profit' =
                      RatAdd(total_session_profit,
                             RatSub(RatMul(RatInt(starting_amount),
                                           RateProduct(quotes_dict, route', 1)),
                                    RatInt(starting_amount))) ]_vars

\* The currencies that the live entries of d connect USD to
RECURSIVE ReachFrom(_, _, _)
ReachFrom(d, S, n) ==
    IF n = 0 THEN S
    ELSE ReachFrom(d, S \cup { m[2] : m \in { k \in Keys(d) : k[1] \in S } },
                   n - 1)

\* The closed walks A, ..., A over distinct currencies (a market A/A is one)
\* whose hops are live entries of d
LiveCycles(d) ==
    { c \in UNION { [ 1 .. n -> Currencies ] : n \in 2 .. 4 } :
        /\ c[1] = c[Len(c)]
        /\ \A i, j \in 1 .. Len(c) - 1 : i # j => c[i] # c[j]
        /\ \A i \in 1 .. Len(c) - 1 : << c[i], c[i + 1] >> \in Keys(d) }

\* The graph of d has a negative cycle that USD reaches: a cycle of live
\* entries whose product of rates exceeds 1
NegativeCycleReachable(d) ==
    /\ \E m \in Keys(d) : USD \in { m[1], m[2] }
    /\ \E c \in LiveCycles(d) :
          /\ c[1] \in ReachFrom(d, { USD }, Cardinality(Currencies))
          /\ Profitable(d, c)

\* C11: a detection pass on a graph with no negative cycle reachable from
\* USD (USD absent from the graph included) gets no witness edge, reports no
\* opportunity and leaves total_session_profit as it was.
C11_NoFalsePositive ==
    [][ (DetectionStep /\ ~NegativeCycleReachable(quotes_dict))
            => /\ find_arbitrage(build_graph(quotes_dict)).negative_cycle_edge
                      = NoEdge
               /\ result' = "no_arbitrage"
               /\ cycle' = <<>>
               /\ route' = <<>>
               /\ total_session_profit' = total_session_profit ]_vars

\* A pass has reported no opportunity on USD/EUR at 2.0 with EUR/USD at 0.5.
C11_Witness ==
    /\ result = "no_arbitrage"
    /\ << "USD", "EUR" >> \in Keys(quotes_dict)
    /\ << "EUR", "USD" >> \in Keys(quotes_dict)
    /\ DictGet(quotes_dict, << "USD", "EUR" >>).price = Rat(2, 1)
    /\ DictGet(quotes_dict, << "EUR", "USD" >>).price = Rat(1, 2)
\* The step is the call of unmarshal_message on the datagram received
UnmarshalStep == pc = "recv" /\ pc' # "recv"

\* The bytes of the currency codes of every chunk of data are ASCII
CodesDecode(data) ==
    \A i \in 1 .. Len(data) : (i - 1) % quote_size < 6 => data[i] < 128

FrameCount(data) == Len(data) \div quote_size

\* The k-th complete frame of data
Frame(data, k) == Slice(data, quote_size * (k - 1), quote_size * k)

\* C12: unmarshal_message of a buffer of n bytes raises nothing and returns
\* floor(n / 32) records, the decoded complete frames in order.
C12_WholeFramesOnly ==
    [][ (UnmarshalStep /\ CodesDecode(wire_bytes))
            => /\ pc' # "crashed"
               /\ Len(wire_quotes') = FrameCount(wire_bytes)
               /\ \A k \in 1 .. FrameCount(wire_bytes) :
                     wire_quotes'[k] = UnmarshalChunk(Frame(wire_bytes, k)).value
      ]_vars

\* The complete frames of data that decode
DecodableFrames(data) ==
    { k \in 1 .. FrameCount(data) :
        UnmarshalChunk(Frame(data, k)).error = "none" }

\* C13: on a buffer of whole frames of which one does not decode, the frames
\* that decode are returned for ingestion and the receive loop goes on.
C13_MalformedFrameSkipped ==
    [][ ( /\ UnmarshalStep
          /\ Len(wire_bytes) % quote_size = 0
          /\ DecodableFrames(wire_bytes) # 1 .. FrameCount(wire_bytes) )
            => /\ pc' # "crashed"
               /\ Len(wire_quotes') = Cardinality(DecodableFrames(wire_bytes))
      ]_vars
\* A quote whose cross is two 3-letter ASCII codes around a separator and
\* whose time, if it has one, is not negative
ValidQuote(q) ==
    /\ Len(q.cross) = 7
    /\ \A i \in 1 .. 7 : Ord(q.cross[i]) < 128
    /\ q.time = NoTime \/ q.time.num >= 0

\* The read of datetime.now() that the k-th quote of quote_sequence, one
\* without 'time', makes in a call that encodes every quote
ReadOf(quote_sequence, k) ==
    Cardinality({ j \in 1 .. k : quote_sequence[j].time = NoTime })

\* C16: marshal_message of valid quotes yields one 32-byte frame per quote
\* with its last 14 bytes zero, and unmarshal_message of the result returns
\* as many records in the same order, with the same two codes and with the
\* microsecond value that was encoded: the truncated time of the quote, or
\* what the clock returned to the quote's own read when it has no time.
C16_RoundTrip ==
    [][ ( /\ pc = "marshal"
          /\ pc' # "marshal"
          /\ \A k \in 1 .. Len(wire_input) : ValidQuote(wire_input[k]) )
            => /\ pc' = "send"
               /\ Len(wire_bytes') = quote_size * Len(wire_input)
               /\ \A k \in 1 .. Len(wire_input) : \A j \in 19 .. 32 :
                     wire_bytes'[quote_size * (k - 1) + j] = 0
               /\ LET got == unmarshal_message(wire_bytes')
                  IN  /\ got.error = "none"
                      /\ Len(got.value) = Len(wire_input)
                      /\ \A k \in 1 .. Len(wire_input) :
                            LET q == wire_input[k]
                            IN  /\ got.value[k].currency1 = SubSeq(q.cross, 1, 3)
                                /\ got.value[k].currency2 = SubSeq(q.cross, 5, 7)
                                /\ got.value[k].timestamp =
                                       IF q.time = NoTime
                                       THEN wire_clock'[ReadOf(wire_input, k)]
                                       ELSE (q.time.num * 1000000) \div q.time.den
      ]_vars

\* Two quotes without time went over the wire untouched; each was encoded
\* with its own read of the clock, which moved by a microsecond in between.
C16_Witness ==
    /\ pc = "process"
    /\ Len(wire_input) = 2
    /\ Len(wire_bytes) = 64
    /\ Len(wire_quotes) = 2
    /\ wire_input[1].time = NoTime
    /\ wire_input[2].time = NoTime
    /\ wire_quotes[1].timestamp = 2000000
    /\ wire_quotes[2].timestamp = 2000001
\* C14: a record with a missing field or with a rate that is zero or
\* negative is rejected: nothing is raised, latest_timestamp and quotes_dict
\* stay as they were, and the loop goes on to the next record.
C14_InvalidRejected ==
    [][ \A q \in LedgerQuotes :
            (ProcessQuote(q) /\ (~Complete(q) \/ q.rate.num <= 0))
                => /\ pc' # "crashed"
                   /\ verdict' \in { "incomplete", "out_of_sequence" }
                   /\ latest_timestamp' = latest_timestamp
                   /\ quotes_dict' = quotes_dict ]_vars
\* Neither from/to nor to/from is a live entry of d
MissingHop(d, from, to) ==
    << from, to >> \notin Keys(d) /\ << to, from >> \notin Keys(d)

\* C15: when a hop between two currencies of the cycle being simulated has
\* no live entry in either direction, the pass ends without an exception
\* leaving the receive loop and total_session_profit stays as it was.
C15_MissingHopTolerated ==
    [][ ( /\ pc = "rotate"
          /\ pc' # "rotate"
          /\ \E i \in 1 .. Len(route) - 1 :
                /\ route[i] # route[i + 1]
                /\ MissingHop(quotes_dict, route[i], route[i + 1]) )
            => /\ pc' # "crashed"
               /\ total_session_profit' = total_session_profit ]_vars

\* C17: when the predecessor walk stopped anywhere but at v (a revisit, or
\* no predecessor), or the sequence has fewer than 3 vertices, the
\* reconstruction is empty and the pass applies no profit.
C17_CorruptWalkRejected ==
    ( /\ pc \in { "filter", "rotate", "recv", "crashed" }
      /\ found_edge # NoEdge
      /\ \/ walk_current # found_edge[2]
         \/ Cardinality(walk_visited) < 1 )
        => /\ cycle = <<>>
           /\ result # "arbitrage"
           /\ total_session_profit = RatInt(0)

\* The hops of a sequence of currencies
Hops(c) == { << c[i], c[i + 1] >> : i \in 1 .. Len(c) - 1 }

\* C18: the rotation of a closed cycle that contains USD starts and ends
\* with USD, has the length of the cycle and exactly its hops, none of them
\* from a currency to itself.
C18_RotationKeepsHops ==
    ( /\ pc = "rotate"
      /\ RotationDone(route)
      /\ cycle[1] = cycle[Len(cycle)] )
        => /\ route[1] = USD
           /\ route[Len(route)] = USD
           /\ Len(route) = Len(cycle)
           /\ Hops(route) = Hops(cycle)
           /\ \A h \in Hops(route) : h[1] # h[2]

\* C20: both loops are bounded, so they end: the predecessor walk appends
\* at most |V| vertices, each of them once, and the rotation of a cycle that
\* contains USD takes fewer iterations than the cycle has elements and
\* never pops from an empty list.
C20_LoopsTerminate ==
    /\ pc = "walk" =>
          /\ Len(cycle) - 1 <= Cardinality(Currencies)
          /\ Len(cycle) - 1 = Cardinality(walk_visited)
    /\ pc = "rotate" =>
          /\ route # <<>>
          /\ InCycle(USD, route)
          /\ rotations < Len(route)

\* The walk ran into a loop of the predecessor map that does not pass
\* through v and stopped at the revisit; the cycle was rotated twice and the
\* pass has ended.
C20_Witness ==
    /\ pc \in { "recv", "crashed" }
    /\ walk_current \in walk_visited
    /\ rotations = 2
\* C19: a cycle that a detection pass hands to display_arbitrage is closed,
\* has at least 3 elements, contains USD, and each of its hops a -> b is an
\* edge of the graph built for the pass: the witness edge or a predecessor
\* link predecessor[b] = a.
C19_SimulatedCycleValid ==
    [][ (DetectionStep /\ result' \in { "arbitrage", "key_error" })
            => LET bf == build_graph(quotes_dict)
                   found == find_arbitrage(bf)
                   E == { << bf.edges[k][1], bf.edges[k][2] >> :
                            k \in 1 .. Len(bf.edges) }
                   c == cycle'
               IN  /\ Len(c) >= 3
                   /\ c[1] = c[Len(c)]
                   /\ InCycle(USD, c)
                   /\ \A i \in 1 .. Len(c) - 1 :
                         /\ << c[i], c[i + 1] >> \in E
                         /\ \/ << c[i], c[i + 1] >> = found.negative_cycle_edge
                            \/ PredGet(found.predecessor, c[i + 1]) = c[i]
      ]_vars
====
